---- MODULE Spec2Model ----
(***************************************************************************)
(* Model of the sales-conversation workflow of whatsapp_sales_bot:         *)
(*   graph/nodes.py      the nodes and the router                          *)
(*   graph/workflow.py   the graph wiring and process_message              *)
(*   whatsapp_webhook.py the transport handler around process_message      *)
(*   database/crud.py    the stored user row and the stored messages       *)
(*                                                                         *)
(* Numbers: intent scores are kept in hundredths (0.8 is 80, 0.2 is 20),   *)
(* times are whole hours.                                                  *)
(***************************************************************************)
EXTENDS Integers, Sequences, FiniteSets, TLC

(***************************************************************************)
(* Bounds of the model                                                     *)
(***************************************************************************)
\* longest message list handed to a node that is called on its own
MaxMsgs == 3
\* number of inbound messages the webhook receives in one behaviour
MaxInbound == 2
\* latest hour of the clock
MaxNow == 1
\* longest history process_message is called with directly
MaxHistory == 2

(***************************************************************************)
(* Values                                                                  *)
(***************************************************************************)
\* Python None in a text-valued field
None == "None"
\* a key that is missing from a dict
Missing == "<missing>"
\* JSON null in a capability's raw output
Null == "null"
\* a numeric key that is missing from the state dict
AbsentNum == -1
\* Python None in a numeric field
NoneNum == -2
\* follow_up_scheduled = None
NoTime == -1

Modes == {"AUTO", "MANUAL", "NEEDS_ATTENTION"}
Sentiments == {"positive", "neutral", "negative"}
Stages == {"welcome", "qualifying", "nurturing", "closing", "sold", "follow_up", "handoff", "completed"}

\* the router's thresholds, in hundredths
ClosingThreshold == 80
FollowUpThreshold == 20
\* the classifier's fallback score, in hundredths
FallbackScore == 30

\* the fixed replies of the nodes
DefaultWelcome == "Hola! Soy tu asistente virtual. En que puedo ayudarte hoy?"
RequestName == "Perfecto! Me encantaria ayudarte a completar tu compra. Podrias decirme tu nombre primero?"
CoupleOfHours == "No hay problema! Te contactare en un par de horas. Tomate tu tiempo!"
Tomorrow == "Por supuesto! Te contactare manana. Que tengas un excelente dia!"
ReachOutAnytime == "Entendido! No dudes en contactarme cuando estes listo. Estoy aqui para ayudarte!"
Apology == "I apologize, I'm having trouble responding right now. Could you please try again?"

(***************************************************************************)
(* Helpers                                                                 *)
(***************************************************************************)
Min(a, b) == IF a < b THEN a ELSE b

\* dict.get(key, default) on a numeric key
GetNum(v, default) == IF v = AbsentNum THEN default ELSE v

\* the engine's merge of a node's sparse update into the running state
MergeUpdate(st, upd) ==
    [f \in (DOMAIN st) \cup (DOMAIN upd) |-> IF f \in DOMAIN upd THEN upd[f] ELSE st[f]]

\* the node returned {}
NoUpdate == [f \in {} |-> None]

\* [m for m in state["messages"] if isinstance(m, HumanMessage)]
user_messages(msgs) == SelectSeq(msgs, LAMBDA m : m.role = "human")

\* Python truthiness of an Optional[str]
Truthy(s) == s # None /\ s # ""

(***************************************************************************)
(* NODE 5: ROUTER  (graph/nodes.py router_node)                            *)
(***************************************************************************)
\* recent_sentiments = [state.get("sentiment")]
recent_sentiments(st) == <<st.sentiment>>

\* all(s == "negative" for s in recent_sentiments[-2:])
LastTwoNegative(rs) ==
    \A i \in 1..Len(rs) : (i > Len(rs) - 2) => rs[i] = "negative"

\* rule 2 of the router
NegativeHandoff(st) ==
    /\ st.sentiment = "negative"
    /\ Len(user_messages(st.messages)) >= 2
    /\ Len(recent_sentiments(st)) >= 2
    /\ LastTwoNegative(recent_sentiments(st))

\* variants of the router used to test the properties below
router_node_NoModeCheck(st) ==
    LET intent_score == GetNum(st.intent_score, 0)
    IN  IF NegativeHandoff(st) THEN "handoff"
        ELSE IF intent_score > ClosingThreshold THEN "closing"
        ELSE IF st.stage = "closing" /\ ~st.payment_link_sent THEN "payment"
        ELSE IF intent_score < FollowUpThreshold THEN "follow_up"
        ELSE "conversation"

router_node_ClosingAtThreshold(st) ==
    LET intent_score == GetNum(st.intent_score, 0)
    IN  IF st.conversation_mode = "NEEDS_ATTENTION" THEN "handoff"
        ELSE IF NegativeHandoff(st) THEN "handoff"
        ELSE IF intent_score >= ClosingThreshold THEN "closing"
        ELSE IF st.stage = "closing" /\ ~st.payment_link_sent THEN "payment"
        ELSE IF intent_score < FollowUpThreshold THEN "follow_up"
        ELSE "conversation"

router_node_FollowUpBeforePayment(st) ==
    LET intent_score == GetNum(st.intent_score, 0)
    IN  IF st.conversation_mode = "NEEDS_ATTENTION" THEN "handoff"
        ELSE IF NegativeHandoff(st) THEN "handoff"
        ELSE IF intent_score > ClosingThreshold THEN "closing"
        ELSE IF st.stage = "closing" /\ ~st.payment_link_sent /\ intent_score >= FollowUpThreshold THEN "payment"
        ELSE IF intent_score < FollowUpThreshold THEN "follow_up"
        ELSE "conversation"

router_node_FollowUpAtThreshold(st) ==
    LET intent_score == GetNum(st.intent_score, 0)
    IN  IF st.conversation_mode = "NEEDS_ATTENTION" THEN "handoff"
        ELSE IF NegativeHandoff(st) THEN "handoff"
        ELSE IF intent_score > ClosingThreshold THEN "closing"
        ELSE IF st.stage = "closing" /\ ~st.payment_link_sent THEN "payment"
        ELSE IF intent_score <= FollowUpThreshold THEN "follow_up"
        ELSE "conversation"

router_node(st) ==
    LET intent_score == GetNum(st.intent_score, 0)
    IN  IF st.conversation_mode = "NEEDS_ATTENTION" THEN "handoff"
        ELSE IF NegativeHandoff(st) THEN "handoff"
        ELSE IF intent_score > ClosingThreshold THEN "closing"
        ELSE IF st.stage = "closing" /\ ~st.payment_link_sent THEN "payment"
        ELSE IF intent_score < FollowUpThreshold THEN "follow_up"
        ELSE "conversation"

(***************************************************************************)
(* Texts.  A text is named by a string; Words gives its words, on which    *)
(* the keyword search of conversation_node is computed.                    *)
(***************************************************************************)
Words(text) ==
    CASE text = "hola" -> <<"hola">>
      [] text = "quiero comprar ahora mismo" -> <<"quiero", "comprar", "ahora", "mismo">>
      [] text = "Quiero hablar con un HUMANO" -> <<"Quiero", "hablar", "con", "un", "HUMANO">>
      [] OTHER -> <<text>>

\* str.lower() on one word
LowerWord(w) ==
    CASE w = "Quiero" -> "quiero"
      [] w = "HUMANO" -> "humano"
      [] OTHER -> w

\* last_message.lower()
Lower(ws) == [i \in 1..Len(ws) |-> LowerWord(ws[i])]

\* human_request_keywords of conversation_node, word by word
human_request_keywords ==
    { <<"humano">>, <<"persona">>, <<"supervisor">>, <<"agente">>, <<"operador">>,
      <<"hablar", "con", "alguien">>, <<"hablar", "con", "un">>, <<"hablar", "con", "una">>,
      <<"asistente", "real">>, <<"persona", "real">> }

\* keyword in last_message_lower
Contains(ws, kw) ==
    \E i \in 1..Len(ws) : i + Len(kw) - 1 <= Len(ws) /\ SubSeq(ws, i, i + Len(kw) - 1) = kw

\* any(keyword in last_message_lower for keyword in human_request_keywords)
HumanRequested(text) == \E kw \in human_request_keywords : Contains(Lower(Words(text)), kw)

\* user_messages[-1].content if user_messages else ""
last_user_text(msgs) ==
    LET um == user_messages(msgs) IN IF Len(um) = 0 THEN "" ELSE um[Len(um)].content

(***************************************************************************)
(* Capabilities (services/llm_service.py): each operator maps the raw      *)
(* outcome of the model call to what the service method returns.           *)
(***************************************************************************)
\* LLMService.classify_intent: the parsed JSON, or the fallback on an error
classify_intent(raw) ==
    IF raw.kind = "error" THEN [category |-> "browsing", score |-> FallbackScore]
    ELSE [category |-> raw.category, score |-> raw.score]

\* response.content.strip().lower()
StripLower(raw) == IF raw = " Negative " THEN "negative" ELSE raw

\* LLMService.analyze_sentiment: coerced to one of the three labels
analyze_sentiment(raw) ==
    IF raw = "error" THEN "neutral"
    ELSE IF StripLower(raw) \notin {"positive", "neutral", "negative"} THEN "neutral"
    ELSE StripLower(raw)

DataKeys == {"name", "email"}

\* {} as a map over the data keys
EmptyDict == [k \in DataKeys |-> Missing]

\* LLMService.extract_data: the parsed JSON without its null values, {} on an error
extract_data(raw) ==
    IF raw.kind = "error" THEN EmptyDict
    ELSE [k \in DataKeys |-> IF raw.json[k] = Null THEN Missing ELSE raw.json[k]]

\* bool(d) of a dict
NonEmptyDict(d) == \E k \in DataKeys : d[k] # Missing

\* the dict d after d.update(e)
DictUpdate(d, e) == [k \in DataKeys |-> IF e[k] # Missing THEN e[k] ELSE d[k]]

\* LLMService.generate_response as the conversation node uses it: the text, or the apology on an error
generate_response(raw) == IF raw = "error" THEN Apology ELSE raw

\* LLMService.generate_closing_message: the model's text for the link, or the fixed text with the link
generate_closing_message(raw, payment_link) ==
    IF raw = "error"
    THEN (IF payment_link = "" THEN "Great! Here's your payment link: " ELSE "Great! Here's your payment link: https://pay.example/1")
    ELSE (IF payment_link = "" THEN "closing message, no link" ELSE "closing message with https://pay.example/1")

(***************************************************************************)
(* Multi-part replies (LLMService.split_into_parts and the end of          *)
(* generate_response).  A generated text is the sequence of its sentences, *)
(* as re.split(r'(?<=[.!?])\s+') cuts it; a sentence is given by its       *)
(* number of words, and is named by its position in the text.  A part is   *)
(* the sequence of the sentences joined into it; the text returned is the  *)
(* sequence of its sentences with PAUSA where the separator stands.        *)
(***************************************************************************)
\* the "[PAUSA]" separator in a returned text
PAUSA == 0

\* len(text.split()) over the sentences named in `part`
RECURSIVE word_count(_, _)
word_count(text, part) ==
    IF part = <<>> THEN 0 ELSE text[Head(part)] + word_count(text, Tail(part))

\* the for loop of split_into_parts from sentence i on
RECURSIVE split_loop(_, _, _, _, _, _)
split_loop(text, max_words, i, parts, current_part, current_word_count) ==
    IF i > Len(text)
    THEN (IF current_part # <<>> THEN Append(parts, current_part) ELSE parts)
    ELSE IF current_word_count + text[i] > max_words /\ current_part # <<>>
         THEN split_loop(text, max_words, i + 1, Append(parts, current_part), <<i>>, text[i])
         ELSE split_loop(text, max_words, i + 1, parts, Append(current_part, i),
                         current_word_count + text[i])

split_into_parts(text, max_words) == split_loop(text, max_words, 1, <<>>, <<>>, 0)

\* ' '.join(parts)
RECURSIVE join_parts(_)
join_parts(parts) == IF parts = <<>> THEN <<>> ELSE Head(parts) \o join_parts(Tail(parts))

limit_parts_Unlimited(parts) == parts

\* if len(parts) > 3: parts = [parts[0], ' '.join(parts[1:-1]), parts[-1]]
limit_parts(parts) ==
    IF Len(parts) > 3
    THEN <<parts[1], join_parts(SubSeq(parts, 2, Len(parts) - 1)), parts[Len(parts)]>>
    ELSE parts

\* "\n\n[PAUSA]\n\n".join(parts)
RECURSIVE join_with_pause(_)
join_with_pause(parts) ==
    IF Len(parts) = 1 THEN parts[1]
    ELSE parts[1] \o <<PAUSA>> \o join_with_pause(Tail(parts))

\* the text generate_response returns for the generated text
multi_part_response(text, multi_part_messages) ==
    LET whole == [i \in 1..Len(text) |-> i]
        words == word_count(text, whole)
        words_per_part == IF words >= 30 THEN words \div 3 ELSE words \div 2
        parts == limit_parts(split_into_parts(text, words_per_part))
    IN  IF multi_part_messages /\ words >= 20 /\ Len(parts) > 1
        THEN join_with_pause(parts)
        ELSE whole

(***************************************************************************)
(* NODE 1: WELCOME                                                         *)
(***************************************************************************)
\* state["config"].get("welcome_message", default)
welcome_message(config) ==
    IF config.welcome_message = Missing THEN DefaultWelcome ELSE config.welcome_message

welcome_node_OnlyEmptyHistory(st) ==
    IF Len(user_messages(st.messages)) < 1
    THEN [current_response |-> welcome_message(st.config), stage |-> "welcome"]
    ELSE NoUpdate

welcome_node(st) ==
    IF Len(user_messages(st.messages)) <= 1
    THEN [current_response |-> welcome_message(st.config), stage |-> "welcome"]
    ELSE NoUpdate

(***************************************************************************)
(* NODE 2: INTENT CLASSIFIER                                               *)
(***************************************************************************)
\* intent_data['category'] or intent_data['score'] raises KeyError
intent_classifier_raises(st, intent_data) ==
    /\ Len(user_messages(st.messages)) > 0
    /\ (intent_data.category = Missing \/ intent_data.score = AbsentNum)

intent_classifier_node(st, intent_data) ==
    IF Len(user_messages(st.messages)) = 0 THEN NoUpdate
    ELSE [intent_score |-> intent_data.score]

(***************************************************************************)
(* NODE 3: SENTIMENT ANALYZER                                              *)
(***************************************************************************)
\* state["messages"][-4:]
LastFour(msgs) == SubSeq(msgs, IF Len(msgs) > 4 THEN Len(msgs) - 3 ELSE 1, Len(msgs))

\* user messages among the last four whose metadata marks them negative
negative_count(msgs) ==
    Len(SelectSeq(LastFour(msgs), LAMBDA m : m.role = "human" /\ m.metadata_sentiment = "negative"))

sentiment_analyzer_node_AllMessages(st, sentiment) ==
    IF Len(user_messages(st.messages)) = 0 THEN NoUpdate
    ELSE IF sentiment = "negative"
            /\ Len(SelectSeq(st.messages, LAMBDA m : m.role = "human" /\ m.metadata_sentiment = "negative")) >= 2
         THEN [sentiment |-> sentiment, conversation_mode |-> "NEEDS_ATTENTION"]
         ELSE [sentiment |-> sentiment]

sentiment_analyzer_node(st, sentiment) ==
    IF Len(user_messages(st.messages)) = 0 THEN NoUpdate
    ELSE IF sentiment = "negative" /\ negative_count(st.messages) >= 2
         THEN [sentiment |-> sentiment, conversation_mode |-> "NEEDS_ATTENTION"]
         ELSE [sentiment |-> sentiment]

(***************************************************************************)
(* NODE 4: DATA COLLECTOR.  state["collected_data"] is a reference to a    *)
(* dict object; the node updates that object in place and returns it.      *)
(***************************************************************************)
\* the dict objects after collected_data.update(extracted_data)
data_collector_heap(st, h, extracted_data) ==
    IF Len(user_messages(st.messages)) > 0 /\ NonEmptyDict(extracted_data)
    THEN [h EXCEPT ![st.collected_data] = DictUpdate(h[st.collected_data], extracted_data)]
    ELSE h

data_collector_node_NoUnsetCheck(st, extracted_data) ==
    IF Len(user_messages(st.messages)) = 0 \/ ~NonEmptyDict(extracted_data) THEN NoUpdate
    ELSE LET base == [collected_data |-> st.collected_data]
             withName == IF extracted_data["name"] # Missing
                         THEN MergeUpdate(base, [user_name |-> extracted_data["name"]])
                         ELSE base
         IN  IF extracted_data["email"] # Missing
             THEN MergeUpdate(withName, [user_email |-> extracted_data["email"]])
             ELSE withName

data_collector_node(st, extracted_data) ==
    IF Len(user_messages(st.messages)) = 0 \/ ~NonEmptyDict(extracted_data) THEN NoUpdate
    ELSE LET base == [collected_data |-> st.collected_data]
             withName == IF extracted_data["name"] # Missing /\ ~Truthy(st.user_name)
                         THEN MergeUpdate(base, [user_name |-> extracted_data["name"]])
                         ELSE base
         IN  IF extracted_data["email"] # Missing /\ ~Truthy(st.user_email)
             THEN MergeUpdate(withName, [user_email |-> extracted_data["email"]])
             ELSE withName

(***************************************************************************)
(* NODE 6: CONVERSATION                                                    *)
(***************************************************************************)
conversation_node(st, response) ==
    IF HumanRequested(last_user_text(st.messages))
    THEN [conversation_mode |-> "NEEDS_ATTENTION"]
    ELSE [current_response |-> response,
          stage |-> IF st.stage = "welcome" THEN "qualifying" ELSE st.stage]

(***************************************************************************)
(* NODE 7: CLOSING                                                         *)
(***************************************************************************)
closing_node(st) ==
    IF ~Truthy(st.user_name)
    THEN [current_response |-> RequestName, stage |-> "closing"]
    ELSE [stage |-> "closing"]

(***************************************************************************)
(* NODE 8: PAYMENT                                                         *)
(***************************************************************************)
payment_node_LinkNotMarked(st, response) ==
    [current_response |-> response, stage |-> "closing"]

payment_node(st, response) ==
    [current_response |-> response, payment_link_sent |-> TRUE, stage |-> "closing"]

(***************************************************************************)
(* NODE 9: FOLLOW-UP                                                       *)
(***************************************************************************)
follow_up_node_AlwaysTwoHours(st, utcnow) ==
    LET follow_up_count == GetNum(st.follow_up_count, 0)
    IN  IF follow_up_count >= 2
        THEN [current_response |-> ReachOutAnytime,
              conversation_mode |-> "NEEDS_ATTENTION",
              stage |-> "follow_up"]
        ELSE [current_response |-> IF follow_up_count = 0 THEN CoupleOfHours ELSE Tomorrow,
              follow_up_scheduled |-> utcnow + 2,
              follow_up_count |-> follow_up_count + 1,
              stage |-> "follow_up"]

follow_up_node(st, utcnow) ==
    LET follow_up_count == GetNum(st.follow_up_count, 0)
    IN  IF follow_up_count >= 2
        THEN [current_response |-> ReachOutAnytime,
              conversation_mode |-> "NEEDS_ATTENTION",
              stage |-> "follow_up"]
        ELSE [current_response |-> IF follow_up_count = 0 THEN CoupleOfHours ELSE Tomorrow,
              follow_up_scheduled |-> utcnow + (IF follow_up_count = 0 THEN 2 ELSE 24),
              follow_up_count |-> follow_up_count + 1,
              stage |-> "follow_up"]

(***************************************************************************)
(* NODE 10: HANDOFF                                                        *)
(***************************************************************************)
\* the f-string of handoff_node for the configured product name
HandoffResponse(config) ==
    IF config.product_name = Missing THEN "Claro que si! Dame unos minutos ... saber mas sobre nuestros servicios?"
    ELSE IF config.product_name = "" THEN "Claro que si! Dame unos minutos ... saber mas sobre ?"
    ELSE "Claro que si! Dame unos minutos ... saber mas sobre el producto?"

handoff_node(st) ==
    [current_response |-> HandoffResponse(st.config),
     conversation_mode |-> "NEEDS_ATTENTION",
     stage |-> "handoff"]

(***************************************************************************)
(* NODE 11: CONVERSATION SUMMARY                                           *)
(***************************************************************************)
summary_node(st, summary) ==
    [conversation_summary |-> summary, stage |-> "completed"]

(***************************************************************************)
(* State                                                                   *)
(***************************************************************************)
VARIABLES
    ucall,          \* the node called on its own: "router", "follow_up", "welcome" or "none"
    uarg,           \* the state it is called with
    uret,           \* what it returned
    udone,          \* the call has returned
    uraw,           \* the raw capability outcome the call works on
    now,            \* datetime.utcnow(), in hours
    config,         \* the stored configuration, as load_all_configs returns it
    user,           \* the stored user row
    stored,         \* the stored messages of the user, in timestamp order
    follow_ups,     \* the follow-up jobs created for the user
    pc,             \* where the webhook handler is: "idle", a node of the graph, "returned", "schedule", "deliver"
    inbound,        \* the message body the handler is processing
    loaded,         \* the User object of the handler's session, as it was loaded
    initial_state,  \* process_message's initial_state
    state,          \* the running state of the graph
    heap,           \* the dict objects that collected_data refers to
    result,         \* what process_message returned
    trace,          \* the nodes run and the router evaluations made in this pass, in order
    route,          \* what the router returned in this pass
    raised,         \* the graph raised in this pass
    writers,        \* the nodes that set current_response in this pass, in order
    outcome,        \* the status the handler returned for its last request
    delivered,      \* the replies sent to the user
    nInbound,       \* inbound messages received so far
    passes,         \* the engine passes the handler has finished for the user, in order
    other           \* a second request of the same user, handled at the same time

vars == <<ucall, uarg, uret, udone, uraw, now, config, user, stored, follow_ups, pc, inbound, loaded,
          initial_state, state, heap, result, trace, route, raised, writers, outcome, delivered,
          nInbound, passes, other>>

unitVars == <<ucall, uarg, uret, udone, uraw>>
dbVars == <<user, stored, follow_ups>>
passVars == <<initial_state, state, heap, result, trace, route, raised, writers>>

(***************************************************************************)
(* Messages and the initial state of a pass                                *)
(***************************************************************************)
\* HumanMessage(content=text)
HumanMessage_MarkedNegative(text) == [role |-> "human", content |-> text, metadata_sentiment |-> "negative"]

HumanMessage(text) == [role |-> "human", content |-> text, metadata_sentiment |-> "none"]
\* AIMessage(content=text)
AIMessage(text) == [role |-> "ai", content |-> text, metadata_sentiment |-> "none"]

\* the reference held by initial_state["collected_data"]
NewDict == 1

\* initial_state of process_message
InitialState(message, conversation_history, cfg) ==
    [messages |-> Append(conversation_history, HumanMessage(message)),
     user_name |-> None,
     user_email |-> None,
     intent_score |-> 0,
     sentiment |-> "neutral",
     stage |-> "welcome",
     conversation_mode |-> "AUTO",
     collected_data |-> NewDict,
     payment_link_sent |-> FALSE,
     follow_up_scheduled |-> NoTime,
     follow_up_count |-> 0,
     current_response |-> None,
     config |-> cfg]

\* the fallback of process_message: {**initial_state, "current_response": apology}
Fallback(init) == [init EXCEPT !.current_response = Apology]

\* the state before any request
IdleState ==
    [InitialState("", <<>>, [welcome_message |-> "", payment_link |-> "", product_name |-> ""])
        EXCEPT !.messages = <<>>]

(***************************************************************************)
(* The stored rows (database/models.py, database/crud.py)                  *)
(***************************************************************************)
\* the default page size of the history load
HistoryLimit == 50

\* crud.create_user: the column defaults of User
NewUser ==
    [exists |-> TRUE, intent_score |-> 0, sentiment |-> "neutral", stage |-> "welcome",
     conversation_mode |-> "AUTO", name |-> None, email |-> None]

NoUser == [NewUser EXCEPT !.exists = FALSE]

\* crud.create_message
create_message(msgs, text, sender) == Append(msgs, [sender |-> sender, message_text |-> text])

\* crud.get_user_messages: the first `limit` messages in timestamp order
get_user_messages(msgs, limit) == SubSeq(msgs, 1, Min(limit, Len(msgs)))

\* the history the webhook builds from messages[:-1]
conversation_history(msgs) ==
    [i \in 1..(Len(msgs) - 1) |->
        IF msgs[i].sender = "user" THEN HumanMessage(msgs[i].message_text)
        ELSE AIMessage(msgs[i].message_text)]

\* user_updates of the webhook, applied by crud.update_user to obj, the User
\* object of the handler's session (sessions keep loaded objects across commits,
\* expire_on_commit=False): setattr followed by commit writes the columns whose
\* new value differs from the loaded one, and leaves the other columns of the
\* row u as they are stored
write_back(u, obj, res) ==
    LET user_updates ==
            [f \in {"intent_score", "sentiment", "stage", "conversation_mode"} |-> res[f]]
            @@ (IF Truthy(res.user_name) THEN [name |-> res.user_name] ELSE NoUpdate)
            @@ (IF Truthy(res.user_email) THEN [email |-> res.user_email] ELSE NoUpdate)
    IN  [f \in DOMAIN u |->
            IF f \in DOMAIN user_updates /\ user_updates[f] # obj[f] THEN user_updates[f] ELSE u[f]]

(***************************************************************************)
(* Inputs                                                                  *)
(***************************************************************************)
\* what scheduler.add_job does: the job is added, or the scheduler raises
SchedulerOutcomes == {"scheduled", "error"}

InboundTexts == {"hola", "quiero comprar ahora mismo", "Quiero hablar con un HUMANO"}

Configs ==
    {[welcome_message |-> w, payment_link |-> l, product_name |-> ""] :
        w \in {"", "Bienvenido a la tienda"}, l \in {"", "https://pay.example/1"}}

\* raw outcomes of the classification call: valid JSON with a score, JSON without
\* the category key, JSON with a null score, or an error (no JSON at all)
ClassifierOutcomes ==
    {[kind |-> "json", category |-> "interested", score |-> sc] : sc \in {10, 50, 95}}
    \cup {[kind |-> "json", category |-> Missing, score |-> 50],
          [kind |-> "json", category |-> "interested", score |-> NoneNum],
          [kind |-> "error", category |-> Missing, score |-> AbsentNum]}

SentimentOutcomes == {"positive", "neutral", "negative", " Negative ", "mixed", "error"}

ExtractionOutcomes ==
    {[kind |-> "json", json |-> [name |-> n, email |-> e]] :
        n \in {Null, "Ana", "Luis"}, e \in {Null, "ana@example.com"}}
    \cup {[kind |-> "json", json |-> [name |-> Missing, email |-> Missing]],
          [kind |-> "error", json |-> [name |-> Missing, email |-> Missing]]}

GenerationOutcomes == {"generated reply", "error"}
SummaryOutcomes == {"generated summary", "error"}

\* the webhook runs on a configured deployment, and the outcomes drawn while it
\* runs several passes in a row are fewer
WebhookConfigs == {c \in Configs : c.payment_link # "" /\ c.welcome_message # ""}
WebhookClassifierOutcomes == {o \in ClassifierOutcomes : o.kind = "json" /\ o.score # NoneNum}
WebhookSentimentOutcomes == {"neutral", "negative"}
WebhookExtractionOutcomes == {o \in ExtractionOutcomes : o.kind = "json" /\ o.json.name \in {Null, "Ana"} /\ o.json.email = Null}
WebhookGenerationOutcomes == {"generated reply"}
WebhookSummaryOutcomes == {"generated summary"}

\* message lists for a node called on its own
MsgKinds ==
    {[role |-> "human", content |-> "hola", metadata_sentiment |-> "none"],
     [role |-> "human", content |-> "hola", metadata_sentiment |-> "negative"],
     [role |-> "ai", content |-> "generated reply", metadata_sentiment |-> "none"]}

MsgLists == UNION {[1..n -> MsgKinds] : n \in 0..MaxMsgs}

\* histories long enough for messages[-4:] to leave earlier messages out
LongHistories ==
    LET neg == [role |-> "human", content |-> "hola", metadata_sentiment |-> "negative"]
        ai == [role |-> "ai", content |-> "generated reply", metadata_sentiment |-> "none"]
    IN  {<<neg, neg, ai, ai>>, <<ai, neg, neg, ai>>}

\* histories for a direct call of process_message
Histories == UNION {[1..n -> MsgKinds] : n \in 0..MaxHistory} \cup LongHistories

Scores == {AbsentNum, 0, 19, 20, 21, 50, 80, 81, 100}

\* largest follow_up_count a node is called with
MaxCount == 3

RouterInputs ==
    {[IdleState EXCEPT !.messages = m, !.conversation_mode = cm, !.sentiment = se,
                       !.intent_score = sc, !.stage = sg, !.payment_link_sent = p] :
        m \in MsgLists, cm \in Modes, se \in Sentiments, sc \in Scores,
        sg \in Stages, p \in BOOLEAN}

FollowUpInputs ==
    {[IdleState EXCEPT !.follow_up_count = c, !.follow_up_scheduled = t, !.stage = sg,
                       !.conversation_mode = cm, !.intent_score = sc, !.current_response = r] :
        c \in {AbsentNum} \cup 0..MaxCount, t \in {NoTime, 0}, sg \in Stages,
        cm \in Modes, sc \in {10, 50}, r \in {None, "generated reply"}}

WelcomeInputs ==
    {[IdleState EXCEPT !.messages = m, !.stage = sg, !.current_response = r,
                       !.config = [welcome_message |-> w, payment_link |-> "", product_name |-> ""]] :
        m \in MsgLists, sg \in {"welcome", "closing"}, r \in {None, "generated reply"},
        w \in {Missing, "", "Bienvenido a la tienda"}}

\* most sentences of a generated text
MaxSentences == 4

\* generated texts: short and long sentences
GeneratedTexts == UNION {[1..n -> {3, 8, 12}] : n \in 1..MaxSentences}

GenerateInputs ==
    {[text |-> t, multi_part_messages |-> m] : t \in GeneratedTexts, m \in BOOLEAN}

\* what collected_data holds when data_collector_node is called on its own
CollectedDicts ==
    {[name |-> n, email |-> e] : n \in {Missing, "Ana"}, e \in {Missing, "ana@example.com"}}

CollectorInputs ==
    {[IdleState EXCEPT !.messages = m, !.user_name = n, !.user_email = e] :
        m \in {<<>>, <<HumanMessage("hola")>>, <<HumanMessage("hola"), AIMessage("generated reply"), HumanMessage("hola")>>},
        n \in {None, "", "Ana"}, e \in {None, "ana@example.com"}}

(***************************************************************************)
(* Initial states                                                          *)
(***************************************************************************)
\* no second request
NoOther ==
    [pc |-> "none", inbound |-> "", own |-> 0, seen |-> 0, loaded |-> NoUser,
     initial_state |-> IdleState, result |-> IdleState]

\* no capability outcome
NoRaw == [kind |-> "none"]

InitSystem ==
    /\ user = NoUser
    /\ stored = <<>>
    /\ follow_ups = <<>>
    /\ pc = "idle"
    /\ inbound = ""
    /\ loaded = NoUser
    /\ initial_state = IdleState
    /\ state = IdleState
    /\ result = IdleState
    /\ trace = <<>>
    /\ route = ""
    /\ raised = FALSE
    /\ writers = <<>>
    /\ outcome = ""
    /\ delivered = <<>>
    /\ nInbound = 0
    /\ passes = <<>>
    /\ other = NoOther

\* the webhook and the operator panel on an empty database
Init ==
    /\ ucall = "none" /\ uarg = IdleState /\ uret = NoUpdate /\ udone = FALSE /\ uraw = NoRaw
    /\ now = 0
    /\ config \in WebhookConfigs
    /\ heap = [r \in {NewDict} |-> EmptyDict]
    /\ InitSystem

\* process_message called directly, on any history
InitEngine ==
    /\ ucall = "none" /\ uarg = IdleState /\ uret = NoUpdate /\ udone = FALSE /\ uraw = NoRaw
    /\ now \in 0..MaxNow
    /\ config \in Configs
    /\ heap = [r \in {NewDict} |-> EmptyDict]
    /\ InitSystem

\* one node called on its own with a state drawn from the input sets
InitNodes ==
    /\ ucall \in {"router", "follow_up", "welcome", "data_collector", "generate_response"}
    /\ uarg \in (CASE ucall = "router" -> RouterInputs
                   [] ucall = "follow_up" -> FollowUpInputs
                   [] ucall = "data_collector" -> CollectorInputs
                   [] ucall = "generate_response" -> GenerateInputs
                   [] OTHER -> WelcomeInputs)
    /\ heap \in [{NewDict} -> IF ucall = "data_collector" THEN CollectedDicts ELSE {EmptyDict}]
    /\ uraw \in (IF ucall = "data_collector" THEN ExtractionOutcomes ELSE {NoRaw})
    /\ uret = NoUpdate
    /\ udone = FALSE
    /\ now \in 0..MaxNow
    /\ config = [welcome_message |-> "", payment_link |-> "", product_name |-> ""]
    /\ InitSystem

(***************************************************************************)
(* A node called on its own                                                *)
(***************************************************************************)
CallRouter ==
    /\ ucall = "router" /\ ~udone
    /\ uret' = [route |-> router_node(uarg)]
    /\ udone' = TRUE
    /\ UNCHANGED <<ucall, uarg, uraw, now, config, dbVars, pc, inbound, loaded, passVars, outcome, delivered, nInbound, passes, other>>

CallFollowUp ==
    /\ ucall = "follow_up" /\ ~udone
    /\ uret' = follow_up_node(uarg, now)
    /\ udone' = TRUE
    /\ UNCHANGED <<ucall, uarg, uraw, now, config, dbVars, pc, inbound, loaded, passVars, outcome, delivered, nInbound, passes, other>>

CallWelcome ==
    /\ ucall = "welcome" /\ ~udone
    /\ uret' = welcome_node(uarg)
    /\ udone' = TRUE
    /\ UNCHANGED <<ucall, uarg, uraw, now, config, dbVars, pc, inbound, loaded, passVars, outcome, delivered, nInbound, passes, other>>

\* data_collector_node with what extract_data returned for the last message
CallDataCollector ==
    /\ ucall = "data_collector" /\ ~udone
    /\ uret' = data_collector_node(uarg, extract_data(uraw))
    /\ heap' = data_collector_heap(uarg, heap, extract_data(uraw))
    /\ udone' = TRUE
    /\ UNCHANGED <<ucall, uarg, uraw, now, config, dbVars, pc, inbound, loaded, initial_state, state, result,
                   trace, route, raised, writers, outcome, delivered, nInbound, passes, other>>

\* the end of generate_response, on the text the model generated
CallGenerateResponse ==
    /\ ucall = "generate_response" /\ ~udone
    /\ uret' = [response_text |-> multi_part_response(uarg.text, uarg.multi_part_messages)]
    /\ udone' = TRUE
    /\ UNCHANGED <<ucall, uarg, uraw, now, config, dbVars, pc, inbound, loaded, passVars, outcome, delivered, nInbound, passes, other>>

NextNodes ==
    \/ CallGenerateResponse
    \/ CallRouter
    \/ CallFollowUp
    \/ CallWelcome
    \/ CallDataCollector

SpecNodes == InitNodes /\ [][NextNodes]_vars

(***************************************************************************)
(* The webhook handler (whatsapp_webhook.py handle_whatsapp_webhook)       *)
(***************************************************************************)
engine_disabled_Never(conversation_mode) == FALSE

\* line 77: the engine is not run for a user an operator has taken over
engine_disabled(conversation_mode) == conversation_mode = "MANUAL"

\* lines 59-102: find or create the user, save the inbound message, read the
\* mode; MANUAL returns at once, otherwise the history is loaded and
\* process_message builds its initial state and starts the graph
Receive(text) ==
    /\ pc = "idle"
    /\ nInbound < MaxInbound
    /\ nInbound' = nInbound + 1
    /\ inbound' = text
    /\ LET u == IF user.exists THEN user ELSE NewUser
           saved == create_message(stored, text, "user")
           messages == get_user_messages(saved, HistoryLimit)
           init == InitialState(text, conversation_history(messages), config)
       IN  /\ user' = u
           /\ stored' = saved
           /\ IF engine_disabled(u.conversation_mode)
              THEN /\ outcome' = "manual"
                   /\ loaded' = NoUser
                   /\ UNCHANGED <<pc, passVars>>
              ELSE /\ outcome' = ""
                   /\ loaded' = u
                   /\ pc' = "welcome"
                   /\ initial_state' = init
                   /\ state' = init
                   /\ heap' = [r \in {NewDict} |-> EmptyDict]
                   /\ result' = IdleState
                   /\ trace' = <<>>
                   /\ route' = ""
                   /\ raised' = FALSE
                   /\ writers' = <<>>
    /\ UNCHANGED <<unitVars, now, config, follow_ups, delivered, passes, other>>

(***************************************************************************)
(* The graph (graph/workflow.py create_sales_graph): one action per node,  *)
(* each merging the node's update into the running state and moving along  *)
(* the node's edge.  A node that raises ends the pass in the except branch *)
(* of process_message.                                                     *)
(***************************************************************************)
\* the writers of current_response after a node returned the update upd
Written(w, node, upd) == IF "current_response" \in DOMAIN upd THEN Append(w, node) ELSE w

\* the except branch of process_message
GraphRaises ==
    /\ result' = Fallback(initial_state)
    /\ raised' = TRUE
    /\ pc' = "returned"

\* the graph reached END: ainvoke returns the running state
GraphEnds(final) ==
    /\ state' = final
    /\ result' = final
    /\ pc' = "returned"

Welcome ==
    /\ pc = "welcome"
    /\ state' = MergeUpdate(state, welcome_node(state))
    /\ writers' = Written(writers, "welcome", welcome_node(state))
    /\ trace' = Append(trace, "welcome")
    /\ pc' = "intent_classifier"
    /\ UNCHANGED <<unitVars, now, config, dbVars, inbound, loaded, initial_state, heap, result, route,
                   raised, outcome, delivered, nInbound, passes, other>>

IntentClassifier(raw) ==
    /\ pc = "intent_classifier"
    /\ trace' = Append(trace, "intent_classifier")
    /\ LET intent_data == classify_intent(raw)
       IN  IF intent_classifier_raises(state, intent_data)
           THEN GraphRaises /\ UNCHANGED <<state, writers>>
           ELSE /\ state' = MergeUpdate(state, intent_classifier_node(state, intent_data))
                /\ writers' = Written(writers, "intent_classifier", intent_classifier_node(state, intent_data))
                /\ pc' = "sentiment_analyzer"
                /\ UNCHANGED <<result, raised>>
    /\ UNCHANGED <<unitVars, now, config, dbVars, inbound, loaded, initial_state, heap, route,
                   outcome, delivered, nInbound, passes, other>>

SentimentAnalyzer(raw) ==
    /\ pc = "sentiment_analyzer"
    /\ state' = MergeUpdate(state, sentiment_analyzer_node(state, analyze_sentiment(raw)))
    /\ writers' = Written(writers, "sentiment_analyzer", sentiment_analyzer_node(state, analyze_sentiment(raw)))
    /\ trace' = Append(trace, "sentiment_analyzer")
    /\ pc' = "data_collector"
    /\ UNCHANGED <<unitVars, now, config, dbVars, inbound, loaded, initial_state, heap, result, route,
                   raised, outcome, delivered, nInbound, passes, other>>

\* router_node compares intent_score with a number: a null score raises TypeError
router_raises(st) ==
    /\ st.conversation_mode # "NEEDS_ATTENTION"
    /\ ~NegativeHandoff(st)
    /\ st.intent_score = NoneNum

\* data_collector and the conditional edge that follows it
DataCollector(raw) ==
    /\ pc = "data_collector"
    /\ trace' = Append(Append(trace, "data_collector"), "router")
    /\ LET extracted_data == extract_data(raw)
           merged == MergeUpdate(state, data_collector_node(state, extracted_data))
       IN  /\ heap' = data_collector_heap(state, heap, extracted_data)
           /\ state' = merged
           /\ writers' = Written(writers, "data_collector", data_collector_node(state, extracted_data))
           /\ IF router_raises(merged)
              THEN GraphRaises /\ UNCHANGED route
              ELSE /\ route' = router_node(merged)
                   /\ pc' = router_node(merged)
                   /\ UNCHANGED <<result, raised>>
    /\ UNCHANGED <<unitVars, now, config, dbVars, inbound, loaded, initial_state, outcome, delivered, nInbound, passes, other>>

Conversation(raw) ==
    /\ pc = "conversation"
    /\ trace' = Append(trace, "conversation")
    /\ GraphEnds(MergeUpdate(state, conversation_node(state, generate_response(raw))))
    /\ writers' = Written(writers, "conversation", conversation_node(state, generate_response(raw)))
    /\ UNCHANGED <<unitVars, now, config, dbVars, inbound, loaded, initial_state, heap, route,
                   raised, outcome, delivered, nInbound, passes, other>>

\* the edge closing -> payment
closing_edge == "payment"

Closing ==
    /\ pc = "closing"
    /\ state' = MergeUpdate(state, closing_node(state))
    /\ writers' = Written(writers, "closing", closing_node(state))
    /\ trace' = Append(trace, "closing")
    /\ pc' = closing_edge
    /\ UNCHANGED <<unitVars, now, config, dbVars, inbound, loaded, initial_state, heap, result, route,
                   raised, outcome, delivered, nInbound, passes, other>>

Payment(raw) ==
    /\ pc = "payment"
    /\ state' = MergeUpdate(state,
                    payment_node(state, generate_closing_message(raw, state.config.payment_link)))
    /\ writers' = Written(writers, "payment",
                    payment_node(state, generate_closing_message(raw, state.config.payment_link)))
    /\ trace' = Append(trace, "payment")
    /\ pc' = "summary"
    /\ UNCHANGED <<unitVars, now, config, dbVars, inbound, loaded, initial_state, heap, result, route,
                   raised, outcome, delivered, nInbound, passes, other>>

FollowUp ==
    /\ pc = "follow_up"
    /\ state' = MergeUpdate(state, follow_up_node(state, now))
    /\ writers' = Written(writers, "follow_up", follow_up_node(state, now))
    /\ trace' = Append(trace, "follow_up")
    /\ pc' = "summary"
    /\ UNCHANGED <<unitVars, now, config, dbVars, inbound, loaded, initial_state, heap, result, route,
                   raised, outcome, delivered, nInbound, passes, other>>

Handoff ==
    /\ pc = "handoff"
    /\ trace' = Append(trace, "handoff")
    /\ GraphEnds(MergeUpdate(state, handoff_node(state)))
    /\ writers' = Written(writers, "handoff", handoff_node(state))
    /\ UNCHANGED <<unitVars, now, config, dbVars, inbound, loaded, initial_state, heap, route,
                   raised, outcome, delivered, nInbound, passes, other>>

Summary(raw) ==
    /\ pc = "summary"
    /\ trace' = Append(trace, "summary")
    /\ GraphEnds(MergeUpdate(state, summary_node(state, generate_response(raw))))
    /\ writers' = Written(writers, "summary", summary_node(state, generate_response(raw)))
    /\ UNCHANGED <<unitVars, now, config, dbVars, inbound, loaded, initial_state, heap, route,
                   raised, outcome, delivered, nInbound, passes, other>>

(***************************************************************************)
(* process_message called by another caller than the webhook               *)
(***************************************************************************)
Invoke(text, history) ==
    /\ pc = "idle"
    /\ nInbound = 0
    /\ nInbound' = 1
    /\ inbound' = text
    /\ loaded' = NoUser
    /\ initial_state' = InitialState(text, history, config)
    /\ state' = InitialState(text, history, config)
    /\ heap' = [r \in {NewDict} |-> EmptyDict]
    /\ result' = IdleState
    /\ trace' = <<>>
    /\ route' = ""
    /\ raised' = FALSE
    /\ writers' = <<>>
    /\ pc' = "welcome"
    /\ UNCHANGED <<unitVars, now, config, dbVars, outcome, delivered, passes, other>>

(***************************************************************************)
(* The webhook handler after process_message returned                      *)
(***************************************************************************)
\* what is kept of a finished request: the message, the route, the nodes run,
\* the state process_message returned and the dict its collected_data refers to
FinishedPass ==
    [inbound |-> inbound, route |-> route, trace |-> trace, result |-> result,
     collected |-> heap[result.collected_data]]

\* the handler returns: its locals are gone
EndRequest ==
    /\ passes' = Append(passes, FinishedPass)
    /\ pc' = "idle"
    /\ inbound' = ""
    /\ loaded' = NoUser
    /\ initial_state' = IdleState
    /\ state' = IdleState
    /\ heap' = [r \in {NewDict} |-> EmptyDict]
    /\ result' = IdleState
    /\ trace' = <<>>
    /\ route' = ""
    /\ raised' = FALSE
    /\ writers' = <<>>

\* lines 104-137: no reply ends the request with an error; otherwise the user
\* row is updated and the reply is saved
WriteBack ==
    /\ pc = "returned"
    /\ IF ~Truthy(result.current_response)
       THEN /\ outcome' = "error"
            /\ EndRequest
            /\ UNCHANGED <<user, stored>>
       ELSE /\ user' = write_back(user, loaded, result)
            /\ stored' = create_message(stored, result.current_response, "bot")
            /\ pc' = IF result.follow_up_scheduled # NoTime THEN "schedule" ELSE "deliver"
            /\ UNCHANGED <<outcome, inbound, loaded, passVars, passes>>
    /\ UNCHANGED <<unitVars, now, config, follow_ups, delivered, nInbound, other>>

\* lines 139-190: the follow-up row is created, then the job is added to the
\* scheduler; add_follow_up_job re-raises what the scheduler raises, and the
\* handler's outer except turns that into an error status
ScheduleFollowUp(job) ==
    /\ pc = "schedule"
    /\ follow_ups' = Append(follow_ups, [scheduled_time |-> result.follow_up_scheduled,
                                         follow_up_count |-> result.follow_up_count,
                                         created_at |-> now])
    /\ IF job = "error"
       THEN /\ outcome' = "failed"
            /\ EndRequest
       ELSE /\ pc' = "deliver"
            /\ UNCHANGED <<inbound, loaded, passVars, outcome, passes>>
    /\ UNCHANGED <<unitVars, now, config, user, stored, delivered, nInbound, other>>

\* lines 192-223: the reply is sent as text
Deliver ==
    /\ pc = "deliver"
    /\ delivered' = Append(delivered, result.current_response)
    /\ outcome' = "ok"
    /\ EndRequest
    /\ UNCHANGED <<unitVars, now, config, dbVars, nInbound, other>>

(***************************************************************************)
(* The operator (gradio_ui) and the clock                                  *)
(***************************************************************************)
\* ConversationsPanelComponent.take_control
TakeControl ==
    /\ user.exists
    /\ user' = [user EXCEPT !.conversation_mode = "MANUAL"]
    /\ UNCHANGED <<unitVars, now, config, stored, follow_ups, pc, inbound, loaded, passVars, outcome,
                   delivered, nInbound, passes, other>>

\* ConversationsPanelComponent.return_to_bot
ReturnToBot ==
    /\ user.exists
    /\ user' = [user EXCEPT !.conversation_mode = "AUTO"]
    /\ UNCHANGED <<unitVars, now, config, stored, follow_ups, pc, inbound, loaded, passVars, outcome,
                   delivered, nInbound, passes, other>>

\* LiveChatsPanel.toggle_conversation_mode
ToggleMode ==
    /\ user.exists
    /\ user' = [user EXCEPT !.conversation_mode =
                    IF user.conversation_mode = "AUTO" THEN "MANUAL" ELSE "AUTO"]
    /\ UNCHANGED <<unitVars, now, config, stored, follow_ups, pc, inbound, loaded, passVars, outcome,
                   delivered, nInbound, passes, other>>

Tick ==
    /\ pc = "idle"
    /\ now < MaxNow
    /\ now' = now + 1
    /\ UNCHANGED <<unitVars, config, dbVars, pc, inbound, loaded, passVars, outcome, delivered, nInbound, passes, other>>

\* the webhook, the operator and the clock.  The handoff node is left out: no
\* pass started by the webhook reaches it (HandoffNotRouted below)
Next ==
    \/ \E text \in InboundTexts : Receive(text)
    \/ Welcome
    \/ \E raw \in WebhookClassifierOutcomes : IntentClassifier(raw)
    \/ \E raw \in WebhookSentimentOutcomes : SentimentAnalyzer(raw)
    \/ \E raw \in WebhookExtractionOutcomes : DataCollector(raw)
    \/ \E raw \in WebhookGenerationOutcomes : Conversation(raw)
    \/ Closing
    \/ \E raw \in WebhookGenerationOutcomes : Payment(raw)
    \/ FollowUp
    \/ \E raw \in WebhookSummaryOutcomes : Summary(raw)
    \/ WriteBack
    \/ \E job \in SchedulerOutcomes : ScheduleFollowUp(job)
    \/ Deliver
    \/ TakeControl
    \/ ReturnToBot
    \/ ToggleMode
    \/ Tick

Spec == Init /\ [][Next]_vars

\* no pass of Spec is routed to the handoff node
HandoffNotRouted == pc # "handoff" /\ route # "handoff"

\* one direct call of process_message
NextEngine ==
    \/ \E text \in InboundTexts, history \in Histories : Invoke(text, history)
    \/ Welcome
    \/ \E raw \in ClassifierOutcomes : IntentClassifier(raw)
    \/ \E raw \in SentimentOutcomes : SentimentAnalyzer(raw)
    \/ \E raw \in ExtractionOutcomes : DataCollector(raw)
    \/ \E raw \in GenerationOutcomes : Conversation(raw)
    \/ Closing
    \/ \E raw \in GenerationOutcomes : Payment(raw)
    \/ FollowUp
    \/ Handoff
    \/ \E raw \in SummaryOutcomes : Summary(raw)

SpecEngine == InitEngine /\ [][NextEngine]_vars

(***************************************************************************)
(* Two requests of one user.  handle_whatsapp_webhook is a coroutine of    *)
(* the endpoint (app.py 136-145) and takes no lock: a second request runs  *)
(* between the awaits of the first.  The second request is the record      *)
(* `other`; its steps are the handler's code between those awaits.         *)
(***************************************************************************)
\* the rows a user has before the two requests arrive
OldRows(n) ==
    [i \in 1..n |-> IF i % 2 = 1 THEN [sender |-> "user", message_text |-> "hola"]
                     ELSE [sender |-> "bot", message_text |-> "generated reply"]]

\* stored histories: none, one that the inbound message fills up to the load
\* limit, and one that already holds as many rows as the limit
StoredBefore == {OldRows(n) : n \in {0, HistoryLimit - 1, HistoryLimit}}

InitConcurrent ==
    /\ ucall = "none" /\ uarg = IdleState /\ uret = NoUpdate /\ udone = FALSE /\ uraw = NoRaw
    /\ now = 0
    /\ config \in WebhookConfigs
    /\ heap = [r \in {NewDict} |-> EmptyDict]
    /\ stored \in StoredBefore
    /\ user = IF stored = <<>> THEN NoUser ELSE NewUser
    /\ follow_ups = <<>>
    /\ pc = "idle" /\ inbound = "" /\ loaded = NoUser
    /\ initial_state = IdleState /\ state = IdleState /\ result = IdleState
    /\ trace = <<>> /\ route = "" /\ raised = FALSE /\ writers = <<>>
    /\ outcome = "" /\ delivered = <<>> /\ nInbound = 0 /\ passes = <<>>
    /\ other = [NoOther EXCEPT !.pc = "arrived"]

\* lines 59-72: the user is fetched or created and the inbound message is saved
OtherSave(text) ==
    /\ other.pc = "arrived"
    /\ LET u == IF user.exists THEN user ELSE NewUser
       IN  /\ user' = u
           /\ stored' = create_message(stored, text, "user")
           /\ other' = [other EXCEPT !.pc = "saved", !.inbound = text, !.loaded = u,
                                     !.own = Len(stored) + 1]
    /\ UNCHANGED <<unitVars, now, config, follow_ups, pc, inbound, loaded, passVars, outcome,
                   delivered, nInbound, passes>>

\* lines 74-102: the mode check, the history load and the initial state of the pass
OtherLoad ==
    /\ other.pc = "saved"
    /\ IF engine_disabled(other.loaded.conversation_mode)
       THEN other' = [other EXCEPT !.pc = "done"]
       ELSE LET messages == get_user_messages(stored, HistoryLimit)
            IN  other' = [other EXCEPT
                            !.pc = "loaded",
                            !.seen = Len(stored),
                            !.initial_state = InitialState(other.inbound, conversation_history(messages), config)]
    /\ UNCHANGED <<unitVars, now, config, dbVars, pc, inbound, loaded, passVars, outcome,
                   delivered, nInbound, passes>>

\* one pass of the graph in which the classifier answers 0.5, the sentiment is
\* neutral, nothing is extracted and a reply is generated
process_message(init) ==
    LET s1 == MergeUpdate(init, welcome_node(init))
        s2 == MergeUpdate(s1, intent_classifier_node(s1, classify_intent(
                    [kind |-> "json", category |-> "interested", score |-> 50])))
        s3 == MergeUpdate(s2, sentiment_analyzer_node(s2, analyze_sentiment("neutral")))
        s4 == MergeUpdate(s3, data_collector_node(s3, EmptyDict))
    IN  IF router_node(s4) = "conversation"
        THEN MergeUpdate(s4, conversation_node(s4, generate_response("generated reply")))
        ELSE MergeUpdate(s4, handoff_node(s4))

\* lines 96-102: the pass of the second request
OtherProcess ==
    /\ other.pc = "loaded"
    /\ other' = [other EXCEPT !.pc = "processed", !.result = process_message(other.initial_state)]
    /\ UNCHANGED <<unitVars, now, config, dbVars, pc, inbound, loaded, passVars, outcome,
                   delivered, nInbound, passes>>

\* lines 104-223: the write-back, the stored reply and the send
OtherWriteBack ==
    /\ other.pc = "processed"
    /\ other' = [other EXCEPT !.pc = "done"]
    /\ IF ~Truthy(other.result.current_response)
       THEN UNCHANGED <<user, stored, delivered>>
       ELSE /\ user' = write_back(user, other.loaded, other.result)
            /\ stored' = create_message(stored, other.result.current_response, "bot")
            /\ delivered' = Append(delivered, other.result.current_response)
    /\ UNCHANGED <<unitVars, now, config, follow_ups, pc, inbound, loaded, passVars, outcome,
                   nInbound, passes>>

NextConcurrent ==
    \/ Receive("hola")
    \/ Welcome
    \/ \E raw \in {o \in WebhookClassifierOutcomes : o.category # Missing /\ o.score = 50} : IntentClassifier(raw)
    \/ SentimentAnalyzer("neutral")
    \/ \E raw \in {o \in WebhookExtractionOutcomes : o.json.name = Null} : DataCollector(raw)
    \/ \E raw \in WebhookGenerationOutcomes : Conversation(raw)
    \/ WriteBack
    \/ Deliver
    \/ OtherSave("quiero comprar ahora mismo")
    \/ OtherLoad
    \/ OtherProcess
    \/ OtherWriteBack

SpecConcurrent == InitConcurrent /\ [][NextConcurrent]_vars

(***************************************************************************)
(* Properties of the router (SpecNodes)                                    *)
(***************************************************************************)
RouterReturned == ucall = "router" /\ udone

\* C1: a state whose conversation_mode is NEEDS_ATTENTION is routed to handoff,
\* whatever its sentiment, intent_score, stage, payment_link_sent and messages.
C1_NeedsAttentionRoutesToHandoff ==
    (RouterReturned /\ uarg.conversation_mode = "NEEDS_ATTENTION") => uret.route = "handoff"

\* C1 witness: a NEEDS_ATTENTION state with a high score in the closing stage went to handoff
C1_Witness ==
    /\ RouterReturned
    /\ uarg.conversation_mode = "NEEDS_ATTENTION"
    /\ uarg.intent_score = 100
    /\ uarg.stage = "closing"
    /\ ~uarg.payment_link_sent
    /\ uret.route = "handoff"

C3_ClosingStageRoutesToPayment ==
    (RouterReturned /\ uarg.stage = "closing" /\ ~uarg.payment_link_sent
        /\ GetNum(uarg.intent_score, 0) <= 80) => uret.route = "payment"

\* C3 amended: a state with stage closing, payment_link_sent false and
\* intent_score <= 0.8 whose mode is not NEEDS_ATTENTION is routed to payment.
C3_ClosingStageRoutesToPaymentUnlessEscalated ==
    (RouterReturned /\ uarg.stage = "closing" /\ ~uarg.payment_link_sent
        /\ GetNum(uarg.intent_score, 0) <= 80
        /\ uarg.conversation_mode # "NEEDS_ATTENTION") => uret.route = "payment"

\* C3 witness: a low score in the closing stage went to payment, not to follow_up
C3_Witness ==
    /\ RouterReturned
    /\ uarg.stage = "closing"
    /\ ~uarg.payment_link_sent
    /\ uarg.intent_score = 0
    /\ uarg.conversation_mode = "MANUAL"
    /\ uret.route = "payment"

\* C4: when no higher rule applies (mode not NEEDS_ATTENTION, no negative-sentiment
\* handoff, intent_score <= 0.8, not stage closing with the link unsent) the state
\* is routed to follow_up if intent_score < 0.2 and to conversation otherwise;
\* exactly 0.2 goes to conversation and a missing intent_score counts as 0.0.
C4_LowIntentRoutesToFollowUp ==
    (RouterReturned
        /\ uarg.conversation_mode # "NEEDS_ATTENTION"
        /\ ~NegativeHandoff(uarg)
        /\ GetNum(uarg.intent_score, 0) <= 80
        /\ ~(uarg.stage = "closing" /\ ~uarg.payment_link_sent))
    => /\ uret.route = (IF uarg.intent_score = AbsentNum \/ uarg.intent_score < 20
                         THEN "follow_up" ELSE "conversation")
       /\ (uarg.intent_score = 20 => uret.route = "conversation")
       /\ (uarg.intent_score = AbsentNum => uret.route = "follow_up")

\* C4 witness: a score of exactly 0.2 went to conversation
C4_Witness ==
    /\ RouterReturned
    /\ uarg.conversation_mode = "AUTO"
    /\ uarg.intent_score = 20
    /\ uarg.stage = "welcome"
    /\ uret.route = "conversation"

\* the two-strikes check as C5 words it: at least two user messages, the current
\* sentiment and the one marked on the previous user message both negative
TwoStrikes(st) ==
    LET um == user_messages(st.messages)
    IN  /\ st.sentiment = "negative"
        /\ Len(um) >= 2
        /\ um[Len(um) - 1].metadata_sentiment = "negative"

\* C5: a state whose mode is not NEEDS_ATTENTION, with sentiment negative and the
\* two-strikes check satisfied, is routed to handoff before intent_score is looked at.
C5_TwoStrikesRouteToHandoff ==
    (RouterReturned /\ uarg.conversation_mode # "NEEDS_ATTENTION" /\ TwoStrikes(uarg))
        => uret.route = "handoff"

(***************************************************************************)
(* Properties of follow_up_node and welcome_node (SpecNodes)               *)
(***************************************************************************)
FollowUpReturned == ucall = "follow_up" /\ udone

\* C6: follow_up_node depends on follow_up_count alone: count 0 schedules 2 hours
\* ahead with the 'couple of hours' text and count 1; count 1 schedules 24 hours
\* ahead with the 'tomorrow' text and count 2; count >= 2 sets NEEDS_ATTENTION with
\* the 'reach out anytime' text and leaves follow_up_scheduled and follow_up_count
\* as they were; the stage becomes follow_up in all three cases.
C6_FollowUpByCount ==
    FollowUpReturned =>
        /\ (uarg.follow_up_count = 0 =>
                uret = [current_response |-> CoupleOfHours, follow_up_scheduled |-> now + 2,
                        follow_up_count |-> 1, stage |-> "follow_up"])
        /\ (uarg.follow_up_count = 1 =>
                uret = [current_response |-> Tomorrow, follow_up_scheduled |-> now + 24,
                        follow_up_count |-> 2, stage |-> "follow_up"])
        /\ (uarg.follow_up_count >= 2 =>
                /\ uret = [current_response |-> ReachOutAnytime,
                           conversation_mode |-> "NEEDS_ATTENTION", stage |-> "follow_up"]
                /\ MergeUpdate(uarg, uret).follow_up_scheduled = uarg.follow_up_scheduled
                /\ MergeUpdate(uarg, uret).follow_up_count = uarg.follow_up_count)
        /\ MergeUpdate(uarg, uret).stage = "follow_up"

\* C6 witness: the second follow-up was scheduled a day ahead
C6_Witness ==
    /\ FollowUpReturned
    /\ uarg.follow_up_count = 1
    /\ now = 1
    /\ uret.follow_up_scheduled = 25
    /\ uret.follow_up_count = 2

WelcomeReturned == ucall = "welcome" /\ udone

Ran(node) == \E i \in 1..Len(trace) : trace[i] = node

\* C8: when a node raises, process_message returns a state whose current_response
\* is the apology and whose other fields have the values of the initial state
\* built before the run: collected_data empty, stage welcome, mode AUTO,
\* follow_up_count 0, payment_link_sent false.
C8_FallbackHasInitialValues ==
    (pc = "returned" /\ raised) =>
        /\ result.current_response = Apology
        /\ result.messages = initial_state.messages
        /\ result.user_name = None
        /\ result.user_email = None
        /\ result.intent_score = 0
        /\ result.sentiment = "neutral"
        /\ result.stage = "welcome"
        /\ result.conversation_mode = "AUTO"
        /\ result.follow_up_count = 0
        /\ result.follow_up_scheduled = NoTime
        /\ ~result.payment_link_sent
        /\ heap[result.collected_data] = EmptyDict

\* C9: every inbound message that is processed ends its pass with a non-empty
\* current_response, and the handler sends a reply instead of ending in an error.
C9_ProcessedMessageGetsReply ==
    /\ pc = "returned" => Truthy(result.current_response)
    /\ outcome # "error"

\* C10: when the router yields closing and no user name is known after the data
\* collector ran, the pass ends with the request-for-name message and stage
\* closing, and neither the payment node nor the summary node ran.
C10_NoNameStaysInClosing ==
    (pc = "returned" /\ ~raised /\ route = "closing" /\ ~Truthy(result.user_name)) =>
        /\ result.current_response = RequestName
        /\ result.stage = "closing"
        /\ ~result.payment_link_sent
        /\ ~Ran("payment")
        /\ ~Ran("summary")

(***************************************************************************)
(* End-to-end scenarios of one pass (SpecEngine)                           *)
(***************************************************************************)
\* the messages payment_node can produce for the configured link
ClosingMessages == {generate_closing_message(raw, config.payment_link) : raw \in GenerationOutcomes}

\* C11: when the router yields closing and the user's name is known, payment runs
\* after closing in the same pass and summary runs last; the pass ends with
\* payment_link_sent true, the closing message for the configured payment_link as
\* current_response, and a conversation_summary.
C11_KnownNameClosesWithPayment ==
    (pc = "returned" /\ ~raised /\ route = "closing" /\ Truthy(result.user_name)) =>
        /\ \E i, j \in 1..Len(trace) :
                i < j /\ j < Len(trace)
                /\ trace[i] = "closing" /\ trace[j] = "payment" /\ trace[Len(trace)] = "summary"
        /\ result.payment_link_sent
        /\ result.current_response \in ClosingMessages
        /\ "conversation_summary" \in DOMAIN result
        /\ Truthy(result.conversation_summary)

\* C11 witness: a first message that gave the name and a high score ended with the
\* payment link, not with the welcome message that welcome_node had set
C11_Witness ==
    /\ pc = "returned" /\ ~raised
    /\ route = "closing"
    /\ Len(initial_state.messages) = 1
    /\ result.user_name = "Ana"
    /\ config.payment_link = "https://pay.example/1"
    /\ config.welcome_message = "Bienvenido a la tienda"
    /\ result.current_response = "closing message with https://pay.example/1"
    /\ result.payment_link_sent
    /\ result.conversation_summary = "generated summary"

\* C12: a first message (empty history) that is a plain greeting, with a score
\* between 0.2 and 0.8, ends its pass with the configured welcome message as
\* current_response, stage welcome, and the payment and follow-up fields untouched.
C12_FirstGreetingGetsWelcome ==
    (pc = "returned" /\ ~raised /\ Len(initial_state.messages) = 1 /\ inbound = "hola"
        /\ result.intent_score >= 20 /\ result.intent_score <= 80) =>
        /\ result.current_response = welcome_message(config)
        /\ result.stage = "welcome"
        /\ ~result.payment_link_sent
        /\ result.follow_up_count = 0
        /\ result.follow_up_scheduled = NoTime

(***************************************************************************)
(* Properties over successive passes of one user (Spec)                    *)
(***************************************************************************)
\* the pass ended in the human-request branch of conversation_node
ShortCircuited(p) == p.route = "conversation" /\ HumanRequested(p.inbound)

\* C13: a pass whose message holds a human-request keyword and reaches the
\* conversation node ends with mode NEEDS_ATTENTION, and the user's next pass is
\* routed to handoff and ends with the handoff response.
C13_HumanRequestThenHandoff ==
    \A i \in 1..Len(passes) :
        ShortCircuited(passes[i]) =>
            /\ passes[i].result.conversation_mode = "NEEDS_ATTENTION"
            /\ (i < Len(passes) =>
                    /\ passes[i + 1].route = "handoff"
                    /\ passes[i + 1].result.current_response = HandoffResponse(config))

\* C14: a stored conversation_mode of NEEDS_ATTENTION is changed only by a step of
\* the operator, which leaves the handler where it is; no step of the handler
\* (the write-back after a pass) changes it.
C14_NeedsAttentionClearedOnlyByOperator ==
    [][(user.conversation_mode = "NEEDS_ATTENTION" /\ user'.conversation_mode # "NEEDS_ATTENTION")
            => UNCHANGED <<pc, stored, passVars>>]_vars

\* C15: an inbound message that arrives while the stored mode is MANUAL is saved and
\* nothing else happens: process_message is not started, no reply is stored or
\* sent, no follow-up is created and the user row is left as it was.
C15_ManualSkipsEngine ==
    [][(pc = "idle" /\ nInbound' # nInbound /\ user.conversation_mode = "MANUAL") =>
            /\ stored' = Append(stored, [sender |-> "user", message_text |-> inbound'])
            /\ pc' = "idle"
            /\ outcome' = "manual"
            /\ UNCHANGED <<user, follow_ups, delivered, passVars, passes>>]_vars

\* C15 witness: after one answered message the operator took control, and the next
\* message was only saved
C15_Witness ==
    /\ pc = "idle"
    /\ outcome = "manual"
    /\ user.conversation_mode = "MANUAL"
    /\ Len(passes) = 1
    /\ Len(delivered) = 1
    /\ Len(stored) = 3
    /\ stored[3].sender = "user"
    /\ nInbound = 2

\* the payment node ran in the pass
PaymentRan(p) == \E i \in 1..Len(p.trace) : p.trace[i] = "payment"

\* C16: the payment node runs in at most one pass of a user: after a pass in which
\* it ran, no later pass runs it again.
C16_PaymentLinkSentOnce ==
    \A i, j \in 1..Len(passes) : (i < j /\ PaymentRan(passes[i])) => ~PaymentRan(passes[j])

\* C17: the follow-ups created for a user are at most two; the first is created by
\* a pass that saw count 0 (stored count 1, two hours ahead), the second by a pass
\* that saw count 1 (stored count 2, twenty-four hours ahead).
C17_FollowUpsEscalate ==
    /\ Len(follow_ups) <= 2
    /\ \A i \in 1..Len(follow_ups) :
            /\ follow_ups[i].follow_up_count = i
            /\ follow_ups[i].scheduled_time - follow_ups[i].created_at = (IF i = 1 THEN 2 ELSE 24)

\* C18: a key collected in an earlier pass of a user is still in collected_data at
\* the end of every later pass.
C18_CollectedDataKeptAcrossPasses ==
    \A i, j \in 1..Len(passes) :
        i < j => \A k \in DataKeys :
                    passes[i].collected[k] # Missing => passes[j].collected[k] # Missing

\* C19: data_collector_node leaves every key that already holds a value as it is,
\* whatever the extraction returns for that key.
C19_CollectedValuesNeverReplaced ==
    [][(ucall = "data_collector" /\ ~udone /\ udone') =>
            \A k \in DataKeys :
                heap[uarg.collected_data][k] # Missing
                    => heap'[uarg.collected_data][k] = heap[uarg.collected_data][k]]_vars

\* C20: every pass that ended with a reply had that reply sent, whether or not the
\* scheduling of its follow-up job failed.
C20_SideEffectFailureKeepsReply ==
    /\ outcome # "failed"
    /\ Len(SelectSeq(passes, LAMBDA p : Truthy(p.result.current_response))) = Len(delivered)

(***************************************************************************)
(* Capability failures (SpecEngine) and multi-part replies (SpecNodes)     *)
(***************************************************************************)
\* C21: whatever the classification, sentiment and extraction capabilities return
\* (an error, unparseable or incomplete output), the pass never takes the
\* apology path of process_message, and the state's sentiment is one of
\* positive, neutral, negative.
C21_CapabilityFailureFallsBack ==
    /\ ~raised
    /\ state.sentiment \in Sentiments

GenerateReturned == ucall = "generate_response" /\ udone

\* C22: the text generate_response returns holds every sentence of the generated
\* text once, whole and in order; with multi_part_messages on and at least 20
\* words it holds at most two separators, none at either end and no two in a
\* row (at most 3 non-empty parts); with fewer than 20 words or with
\* multi_part_messages off it holds no separator.
C22_MultiPartKeepsSentences ==
    GenerateReturned =>
        LET out == uret.response_text
            seps == Len(SelectSeq(out, LAMBDA x : x = PAUSA))
            whole == [i \in 1..Len(uarg.text) |-> i]
        IN  /\ SelectSeq(out, LAMBDA x : x # PAUSA) = whole
            /\ IF uarg.multi_part_messages /\ word_count(uarg.text, whole) >= 20
               THEN /\ seps <= 2
                    /\ out[1] # PAUSA /\ out[Len(out)] # PAUSA
                    /\ \A i \in 1..(Len(out) - 1) : ~(out[i] = PAUSA /\ out[i + 1] = PAUSA)
               ELSE seps = 0

\* C22 witness: four sentences of 8 words were cut into four parts and merged into three
C22_Witness ==
    /\ GenerateReturned
    /\ uarg.multi_part_messages
    /\ uarg.text = <<8, 8, 8, 8>>
    /\ uret.response_text = <<1, PAUSA, 2, 3, PAUSA, 4>>

(***************************************************************************)
(* The order of the nodes in a pass (SpecEngine)                           *)
(***************************************************************************)
\* the analysis pipeline and the one evaluation of the router
Pipeline == <<"welcome", "intent_classifier", "sentiment_analyzer", "data_collector", "router">>

\* the nodes of a branch, the summary last where the branch has one
Branch(r) ==
    CASE r = "conversation" -> <<"conversation">>
      [] r = "handoff" -> <<"handoff">>
      [] r = "closing" -> <<"closing", "payment", "summary">>
      [] r = "payment" -> <<"payment", "summary">>
      [] r = "follow_up" -> <<"follow_up", "summary">>
      [] OTHER -> <<>>

\* C24 as stated: every pass that has returned has run welcome,
\* intent_classifier, sentiment_analyzer, data_collector, one evaluation of the
\* router and the selected branch, each once and in this order, with the summary
\* last exactly for the branches closing, payment and follow_up.
C24_EveryPassRunsFixedOrder ==
    pc = "returned" => (/\ route \in {"conversation", "handoff", "closing", "payment", "follow_up"}
                        /\ trace = Pipeline \o Branch(route))

\* what does hold: the same, for every pass in which no node raises
PassRunsFixedOrderUnlessRaised ==
    (pc = "returned" /\ ~raised)
        => (/\ route \in {"conversation", "handoff", "closing", "payment", "follow_up"}
            /\ trace = Pipeline \o Branch(route))

(***************************************************************************)
(* Escalation by the sentiment analyzer (SpecEngine)                       *)
(***************************************************************************)
\* the number of user messages marked negative among the last four of msgs
MarkedNegative(msgs) ==
    Cardinality({i \in 1..Len(msgs) : /\ i > Len(msgs) - 4
                                      /\ msgs[i].role = "human"
                                      /\ msgs[i].metadata_sentiment = "negative"})

\* the sentiment analyzer has run in this pass and found the case of escalation
SentimentEscalates ==
    /\ \E i \in 1..Len(trace) : trace[i] = "sentiment_analyzer"
    /\ state.sentiment = "negative"
    /\ MarkedNegative(state.messages) >= 2

\* C25: right after the sentiment analyzer conversation_mode is NEEDS_ATTENTION
\* exactly when the sentiment is negative and at least 2 of the last 4 messages
\* are user messages marked negative, and with a positive or neutral sentiment the
\* mode is the one the pass started with; a pass in which the analyzer escalated
\* returns from the handoff branch: handoff response, stage handoff, no summary.
C25_SentimentEscalation ==
    /\ pc = "data_collector" =>
          /\ state.conversation_mode = "NEEDS_ATTENTION" <=> SentimentEscalates
          /\ state.sentiment # "negative" => state.conversation_mode = initial_state.conversation_mode
    /\ (pc = "returned" /\ SentimentEscalates) =>
          /\ ~raised
          /\ route = "handoff"
          /\ trace = Pipeline \o <<"handoff">>
          /\ result.current_response = HandoffResponse(config)
          /\ result.stage = "handoff"
          /\ result.conversation_mode = "NEEDS_ATTENTION"

\* C25 witness: with five messages, two of the last four marked negative, a pass
\* with a negative sentiment returned from handoff
C25_Witness ==
    /\ pc = "returned"
    /\ Len(state.messages) = 5
    /\ SentimentEscalates
    /\ route = "handoff"
    /\ result.stage = "handoff"

(***************************************************************************)
(* Writers of current_response (SpecEngine)                                *)
(***************************************************************************)
\* C26: in every pass at most one node sets current_response.
C26_OneWriterOfResponse == Len(writers) <= 1

(***************************************************************************)
(* The identity fields (SpecNodes)                                         *)
(***************************************************************************)
CollectorReturned == ucall = "data_collector" /\ udone

\* the updates the nodes after the data collector return for the state st
DownstreamUpdates(st) ==
    <<conversation_node(st, "generated reply"), conversation_node(st, Apology),
      closing_node(st), payment_node(st, "closing message, no link"),
      follow_up_node(st, now), handoff_node(st), summary_node(st, "generated summary")>>

\* C27: the data collector returns user_name (user_email) exactly when it ran
\* with an extraction that holds name (email) while the state's field was unset,
\* and then with the extracted value; a field that held a value holds the same
\* value after the collector, also when the extraction holds another one; and no
\* node after the collector returns either field.
C27_IdentityFieldsSetOnce ==
    CollectorReturned =>
        LET extracted == extract_data(uraw)
            ran == Len(user_messages(uarg.messages)) > 0 /\ NonEmptyDict(extracted)
            after == MergeUpdate(uarg, uret)
        IN  /\ "user_name" \in DOMAIN uret
                <=> (ran /\ extracted["name"] # Missing /\ ~Truthy(uarg.user_name))
            /\ "user_email" \in DOMAIN uret
                <=> (ran /\ extracted["email"] # Missing /\ ~Truthy(uarg.user_email))
            /\ "user_name" \in DOMAIN uret => uret.user_name = extracted["name"]
            /\ "user_email" \in DOMAIN uret => uret.user_email = extracted["email"]
            /\ Truthy(uarg.user_name) => after.user_name = uarg.user_name
            /\ Truthy(uarg.user_email) => after.user_email = uarg.user_email
            /\ Len(user_messages(uarg.messages)) > 0 =>
                  \A i \in 1..Len(DownstreamUpdates(after)) :
                      /\ "user_name" \notin DOMAIN DownstreamUpdates(after)[i]
                      /\ "user_email" \notin DOMAIN DownstreamUpdates(after)[i]

\* C27 witness: the state held the name Ana, the extraction returned Luis, and the
\* collector returned no user_name
C27_Witness ==
    /\ CollectorReturned
    /\ uarg.user_name = "Ana"
    /\ uraw.kind = "json" /\ uraw.json.name = "Luis"
    /\ "collected_data" \in DOMAIN uret
    /\ "user_name" \notin DOMAIN uret

C29_PassKeepsManual ==
    [][(user.conversation_mode = "MANUAL" /\ user'.conversation_mode # "MANUAL")
            => UNCHANGED <<pc, stored, passVars>>]_vars

(***************************************************************************)
(* Two requests of one user (SpecConcurrent)                               *)
(***************************************************************************)
\* the first request has loaded its history and not yet written its result back
InFlight == pc \notin {"idle", "schedule", "deliver"}

\* the same of the second request
OtherInFlight == other.pc \in {"loaded", "processed"}

\* C23: two inbound messages of one user are never in a pass at the same time:
\* from the history load to the write-back of one request the other request is
\* before its history load or after its write-back.
C23_PassesSerialized == ~(InFlight /\ OtherInFlight)

\* the messages of the rows, as the webhook converts them
RowsAsMessages(rows) ==
    [i \in 1..Len(rows) |->
        IF rows[i].sender = "user" THEN HumanMessage(rows[i].message_text)
        ELSE AIMessage(rows[i].message_text)]

\* C30: the state the second request hands to process_message holds the rows that
\* were stored before its own inbound row (or, with a save in between, also the
\* rows the load saw after it), in order and without its own row, followed by the
\* inbound message: the inbound message is the last one and occurs once.
C30_HistoryExcludesInbound ==
    other.pc \in {"loaded", "processed", "done"} /\ other.seen > 0 =>
        LET before == SubSeq(stored, 1, other.own - 1)
            after == SubSeq(stored, other.own + 1, other.seen)
            msgs == other.initial_state.messages
        IN  /\ \/ msgs = Append(RowsAsMessages(before), HumanMessage(other.inbound))
               \/ msgs = Append(RowsAsMessages(before \o after), HumanMessage(other.inbound))
            /\ Len(SelectSeq(msgs, LAMBDA m : m.content = other.inbound)) = 1

====
